---- MODULE Spec2Model ----
(***************************************************************************)
(* A model of skytemple_files/common/util.py: the integer codec            *)
(* (read_* / write_* over a bytes-like buffer), the chunk iterator         *)
(* iter_bytes and the palette de-duplicator make_palette_colors_unique.    *)
(*                                                                         *)
(* Four specifications share the variables; each one drives one part of    *)
(* the module and leaves the variables of the other parts at rest:         *)
(*   SpecCodec    calls of the read_* and write_* functions on one buffer  *)
(*   SpecIter     one run of the generator iter_bytes                      *)
(*   SpecPalette  one call of make_palette_colors_unique, candidate by     *)
(*                candidate, and a second call on its own output           *)
(*   SpecSearch   one call of _mpcu__check alone                           *)
(***************************************************************************)
EXTENDS Integers, Sequences, FiniteSets, TLC

VARIABLES
    \* ---- integer codec ----
    data,       \* the buffer's bytes, a sequence over 0..255 (index 1 is Python's 0)
    kind,       \* "bytearray" or "memoryview": the mutable bytes-like objects
    call,       \* the last call: function, arguments, exception, result
    before,     \* the buffer's bytes when the last call was made
    ncalls,     \* calls made so far
    \* ---- iter_bytes ----
    it_data, slice_size, it_start, it_end,   \* the generator's arguments
    it_i,       \* the loop variable i of range(start, end, slice_size)
    yielded,    \* the slices yielded so far
    it_pc,      \* "running" | "exhausted"
    \* ---- make_palette_colors_unique ----
    inp,        \* the argument: a sequence of palettes, each a flat sequence of ints
    out,        \* the list being built
    already_collected_colors,
    palette_idx,  \* position of the outer loop (1-based; 0 before the first palette)
    color_idx,    \* the inner loop's color_idx (0-based, as in the source)
    color,        \* _mpcu__check's parameter color in the innermost frame
    change_next, change_amount,
    depth,        \* number of nested _mpcu__check frames
    pc,           \* "palettes" | "colors" | "check" | "returned" | "done" |
                  \* "RecursionError" | "idle"
    pass,         \* 1: the call on the input; 2: the call on the first call's output
    first_out     \* what the first call returned (<<>> during the first call)

codec_vars == <<data, kind, call, before, ncalls>>
iter_vars == <<it_data, slice_size, it_start, it_end, it_i, yielded, it_pc>>
palette_vars == <<inp, out, already_collected_colors, palette_idx, color_idx, color,
                  change_next, change_amount, depth, pc, pass, first_out>>
vars == <<codec_vars, iter_vars, palette_vars>>

Min(a, b) == IF a < b THEN a ELSE b
Max(a, b) == IF a > b THEN a ELSE b

(***************************************************************************)
(* Bounds of the model.                                                    *)
(***************************************************************************)
BufLen == 2          \* length of the buffer a codec run starts with
MaxWidth == 2        \* largest `length` argument of a codec call (256^4 is past
                     \* the integers TLC computes with)
MaxCalls == 2        \* codec calls per run

(***************************************************************************)
(* Python's built-ins, as the functions of util.py use them.               *)
(***************************************************************************)
RECURSIVE Pow256(_)
Pow256(n) == IF n = 0 THEN 1 ELSE 256 * Pow256(n - 1)

\* Slice, were a range that passes the end of s to give nothing at all.
SliceAllOrNothing(s, start, stop) ==
    IF stop > Len(s) THEN <<>> ELSE SubSeq(s, Min(start, stop) + 1, stop)

\* s[start:stop] for start, stop >= 0: both ends are cut to len(s), never an error.
Slice(s, start, stop) ==
    LET lo == Min(start, Len(s))
        hi == Max(lo, Min(stop, Len(s)))
    IN  SubSeq(s, lo + 1, hi)

\* The bytes most significant first, whatever the byte order.
BigEndian(bs, byteorder) ==
    IF byteorder = "big" THEN bs ELSE [i \in 1..Len(bs) |-> bs[Len(bs) + 1 - i]]

RECURSIVE Unsigned(_)
Unsigned(bs) ==
    IF bs = <<>> THEN 0 ELSE 256 * Unsigned(SubSeq(bs, 1, Len(bs) - 1)) + bs[Len(bs)]

\* int.from_bytes(bs, byteorder=..., signed=...); the empty sequence gives 0.
from_bytes(bs, byteorder, signed) ==
    LET be == BigEndian(bs, byteorder)
        u  == Unsigned(be)
    IN  IF signed /\ bs # <<>> /\ be[1] >= 128 THEN u - Pow256(Len(bs)) ELSE u

\* Overflows, were only the upper limit checked.
OverflowsAbove(to_write, length, signed) ==
    IF signed THEN to_write >= Pow256(length) \div 2 ELSE to_write >= Pow256(length)

\* Whether to_write.to_bytes(length, signed=...) raises OverflowError.
Overflows(to_write, length, signed) ==
    IF signed
    THEN to_write < -(Pow256(length) \div 2) \/ to_write >= Pow256(length) \div 2
    ELSE to_write < 0 \/ to_write >= Pow256(length)

\* to_bytes, were the byte order ignored.
to_bytes_big(to_write, length, byteorder, signed) ==
    LET u == to_write % Pow256(length)
    IN  [i \in 1..length |-> (u \div Pow256(length - i)) % 256]

\* to_write.to_bytes(length, byteorder=..., signed=...), when it does not raise:
\* the two's complement of to_write in `length` bytes.
to_bytes(to_write, length, byteorder, signed) ==
    LET u  == to_write % Pow256(length)
        be == [i \in 1..length |-> (u \div Pow256(length - i)) % 256]
    IN  BigEndian(be, byteorder)

\* slice_assign, were the bytes inserted at start instead of put in place of the slice.
slice_insert(buf, knd, start, length, bs) ==
    LET lo == Min(start, Len(buf))
    IN  [exc |-> "none", data |-> SubSeq(buf, 1, lo) \o bs \o SubSeq(buf, lo + 1, Len(buf))]

\* data[start:start+length] = bs on a bytearray: the slice (cut to the buffer as in
\* Slice) is replaced by bs, so the buffer grows when the slice is shorter than bs.
\* On a memoryview the two must have the same length, else ValueError.
slice_assign(buf, knd, start, length, bs) ==
    LET lo == Min(start, Len(buf))
        hi == Max(lo, Min(start + length, Len(buf)))
    IN  IF knd = "memoryview" /\ hi - lo # Len(bs)
        THEN [exc |-> "ValueError", data |-> buf]
        ELSE [exc |-> "none",
              data |-> SubSeq(buf, 1, lo) \o bs \o SubSeq(buf, hi + 1, Len(buf))]

(***************************************************************************)
(* The integer codec.                                                      *)
(***************************************************************************)
read_bytes(buf, start, length) == Slice(buf, start, start + length)
read_uintle(buf, start, length) == from_bytes(Slice(buf, start, start + length), "little", FALSE)
read_sintle(buf, start, length) == from_bytes(Slice(buf, start, start + length), "little", TRUE)
read_uintbe(buf, start, length) == from_bytes(Slice(buf, start, start + length), "big", FALSE)
read_sintbe(buf, start, length) == from_bytes(Slice(buf, start, start + length), "big", TRUE)

\* The right-hand side is evaluated first: an OverflowError leaves the buffer alone.
write_int(buf, knd, to_write, start, length, byteorder, signed) ==
    IF Overflows(to_write, length, signed)
    THEN [exc |-> "OverflowError", data |-> buf]
    ELSE slice_assign(buf, knd, start, length, to_bytes(to_write, length, byteorder, signed))

write_uintle(buf, knd, to_write, start, length) ==
    write_int(buf, knd, to_write, start, length, "little", FALSE)
write_sintle(buf, knd, to_write, start, length) ==
    write_int(buf, knd, to_write, start, length, "little", TRUE)
write_uintbe(buf, knd, to_write, start, length) ==
    write_int(buf, knd, to_write, start, length, "big", FALSE)
write_sintbe(buf, knd, to_write, start, length) ==
    write_int(buf, knd, to_write, start, length, "big", TRUE)

ReadInts == {"read_uintle", "read_sintle", "read_uintbe", "read_sintbe"}
Writes == {"write_uintle", "write_sintle", "write_uintbe", "write_sintbe"}

ApplyRead(f, buf, start, length) ==
    CASE f = "read_uintle" -> read_uintle(buf, start, length)
      [] f = "read_sintle" -> read_sintle(buf, start, length)
      [] f = "read_uintbe" -> read_uintbe(buf, start, length)
      [] f = "read_sintbe" -> read_sintbe(buf, start, length)

ApplyWrite(f, buf, knd, to_write, start, length) ==
    CASE f = "write_uintle" -> write_uintle(buf, knd, to_write, start, length)
      [] f = "write_sintle" -> write_sintle(buf, knd, to_write, start, length)
      [] f = "write_uintbe" -> write_uintbe(buf, knd, to_write, start, length)
      [] f = "write_sintbe" -> write_sintbe(buf, knd, to_write, start, length)

\* The read that matches a write: same byte order, same signedness.
MatchingRead(f) ==
    CASE f = "write_uintle" -> "read_uintle"
      [] f = "write_sintle" -> "read_sintle"
      [] f = "write_uintbe" -> "read_uintbe"
      [] f = "write_sintbe" -> "read_sintbe"

IsSigned(f) == f \in {"write_sintle", "write_sintbe", "read_sintle", "read_sintbe"}

(***************************************************************************)
(* Arguments of the codec calls of a run.                                  *)
(***************************************************************************)
Widths == 1..MaxWidth
Starts == 0..(BufLen + 1)
\* Around every limit of every width: the least and the greatest signed and unsigned
\* value, their neighbours outside the range, and a value whose bytes all differ.
RECURSIVE Ramp(_)
Ramp(n) == IF n = 0 THEN 0 ELSE 256 * Ramp(n - 1) + n
ValuesOf(n) ==
    LET h == Pow256(n) \div 2
    IN  {-h - 1, -h, -1, 0, h - 1, h, 2 * h - 1, 2 * h, Ramp(n)}
InitBuffer == [i \in 1..BufLen |-> 17 * i]

NoCall == [f |-> "none", to_write |-> 0, start |-> 0, length |-> 0,
           exc |-> "none", result |-> 0, bytes |-> <<>>]

CodecIdle ==
    /\ data = <<>> /\ kind = "bytearray" /\ call = NoCall /\ before = <<>> /\ ncalls = 0

CodecInit ==
    /\ data = InitBuffer
    /\ kind \in {"bytearray", "memoryview"}
    /\ call = NoCall
    /\ before = data
    /\ ncalls = 0

Write ==
    /\ UNCHANGED <<iter_vars, palette_vars>>
    /\ call = NoCall
    /\ ncalls < MaxCalls
    /\ \E f \in Writes, start \in Starts, length \in Widths :
       \E v \in ValuesOf(length) :
         LET r == ApplyWrite(f, data, kind, v, start, length)
         IN  /\ data' = r.data
             /\ call' = [f |-> f, to_write |-> v, start |-> start, length |-> length,
                         exc |-> r.exc, result |-> 0, bytes |-> <<>>]
    /\ before' = data
    /\ ncalls' = ncalls + 1
    /\ kind' = kind

ReadInt ==
    /\ UNCHANGED <<iter_vars, palette_vars>>
    /\ call = NoCall
    /\ ncalls < MaxCalls
    /\ \E f \in ReadInts, start \in Starts, length \in Widths :
         call' = [f |-> f, to_write |-> 0, start |-> start, length |-> length,
                  exc |-> "none", result |-> ApplyRead(f, data, start, length),
                  bytes |-> <<>>]
    /\ before' = data
    /\ ncalls' = ncalls + 1
    /\ UNCHANGED <<data, kind>>

ReadBytes ==
    /\ UNCHANGED <<iter_vars, palette_vars>>
    /\ call = NoCall
    /\ ncalls < MaxCalls
    /\ \E start \in Starts, length \in Widths :
         call' = [f |-> "read_bytes", to_write |-> 0, start |-> start, length |-> length,
                  exc |-> "none", result |-> 0, bytes |-> read_bytes(data, start, length)]
    /\ before' = data
    /\ ncalls' = ncalls + 1
    /\ UNCHANGED <<data, kind>>

\* The caller is done with the last call's result and goes on to its next call.
Discard ==
    /\ UNCHANGED <<iter_vars, palette_vars>>
    /\ call # NoCall
    /\ ncalls < MaxCalls
    /\ call' = NoCall
    /\ before' = data
    /\ UNCHANGED <<data, kind, ncalls>>

Codec == Write \/ ReadInt \/ ReadBytes \/ Discard

(***************************************************************************)
(* iter_bytes: a generator; each IterNext is one next() that yields, and   *)
(* IterStop the next() that finds range(start, end, slice_size) used up.   *)
(***************************************************************************)
MaxData == 4         \* longest data given to iter_bytes
MaxSlice == 3        \* largest slice_size

\* The slice the loop body yields for the loop variable i.
iter_bytes_slice(d, i, size) == Slice(d, i, i + size)

IterIdle ==
    /\ it_data = <<>> /\ slice_size = 1 /\ it_start = 0 /\ it_end = 0
    /\ it_i = 0 /\ yielded = <<>> /\ it_pc = "idle"

\* Every byte of data is its own index, so a yielded slice shows where it came from.
IterInit ==
    /\ \E n \in 0..MaxData : it_data = [k \in 1..n |-> k - 1]
    /\ slice_size \in 1..MaxSlice
    /\ it_start \in 0..Len(it_data)
    /\ it_end \in it_start..Len(it_data)
    /\ it_i = it_start
    /\ yielded = <<>>
    /\ it_pc = "running"

IterNext ==
    /\ UNCHANGED <<codec_vars, palette_vars>>
    /\ it_pc = "running"
    /\ it_i < it_end
    /\ yielded' = Append(yielded, iter_bytes_slice(it_data, it_i, slice_size))
    /\ it_i' = it_i + slice_size
    /\ UNCHANGED <<it_data, slice_size, it_start, it_end, it_pc>>

IterStop ==
    /\ UNCHANGED <<codec_vars, palette_vars>>
    /\ it_pc = "running"
    /\ it_i >= it_end
    /\ it_pc' = "exhausted"
    /\ UNCHANGED <<it_data, slice_size, it_start, it_end, it_i, yielded>>

Iter == IterNext \/ IterStop

(***************************************************************************)
(* make_palette_colors_unique and _mpcu__check.                            *)
(***************************************************************************)
MaxPalettes == 2     \* palettes of a small input
MaxColors == 3       \* colors of a small input, over all its palettes
AdvCycles == 126     \* passes through the eight steps that the long input covers
RecursionLimit == 1000   \* sys.getrecursionlimit() of CPython as shipped: the nested
                         \* calls of _mpcu__check the interpreter allows at most

\* InSeen, were the color compared with the last collected color only.
InSeenLast(c, seen) == seen # <<>> /\ seen[Len(seen)] = c

\* InSeen, were only the blue channels compared.
InSeenBlue(c, seen) == \E i \in 1..Len(seen) : seen[i][3] = c[3]

\* color in already_collected_colors
InSeen(c, seen) == \E i \in 1..Len(seen) : seen[i] = c

\* The if/elif chain of _mpcu__check: new_color before it is clamped.
Perturb(c, next, amount) ==
    CASE next = 0 -> <<c[1] + amount, c[2], c[3]>>
      [] next = 1 -> <<c[1] - amount, c[2] + amount, c[3]>>
      [] next = 2 -> <<c[1], c[2] - amount, c[3] + amount>>
      [] next = 3 -> <<c[1], c[2] + amount, c[3]>>
      [] next = 4 -> <<c[1] + amount, c[2], c[3]>>
      [] next = 5 -> <<c[1], c[2], c[3] - amount>>
      [] next = 6 -> <<c[1] - amount, c[2] - amount, c[3] - amount>>
      [] next = 7 -> <<c[1], c[2] - amount, c[3] + amount>>
      [] OTHER    -> <<c[1] - amount, c[2] + amount, c[3]>>

\* Clamp without its elif: nothing is cut back to 255.
ClampLow(c) == [i \in 1..3 |-> IF c[i] < 0 THEN 0 ELSE c[i]]

\* for i in [0, 1, 2]: new_color[i] is brought into 0..255.
Clamp(c) == [i \in 1..3 |-> IF c[i] < 0 THEN 0 ELSE IF c[i] > 255 THEN 255 ELSE c[i]]

new_change_next(next) == (next + 1) % 8
\* new_change_amount, were the step just taken tested instead of the next one.
change_amount_early(next, amount) == IF next = 0 THEN amount + 1 ELSE amount

new_change_amount(next, amount) == IF new_change_next(next) = 0 THEN amount + 1 ELSE amount

(***************************************************************************)
(* Inputs of a run: every small collection over SmallColors, and the       *)
(* collections AdvInput(n) that hold, without a repeat, the candidates     *)
(* the search from <<0, 0, 0>> tries in its first n passes, followed by a  *)
(* palette that repeats <<0, 0, 0>>.                                       *)
(***************************************************************************)
SmallColors == {<<0, 0, 0>>, <<1, 0, 0>>, <<255, 255, 255>>}

RECURSIVE Flatten(_)
Flatten(cs) == IF cs = <<>> THEN <<>> ELSE Head(cs) \o Flatten(Tail(cs))

SeqsUpTo(S, n) == UNION {[1..k -> S] : k \in 0..n}

\* The colors cs cut into Len(cuts) + 1 palettes after the positions cuts.
Split(cs, cuts) ==
    LET p     == Len(cuts) + 1
        lo(j) == IF j = 1 THEN 0 ELSE cuts[j - 1]
        hi(j) == IF j = p THEN Len(cs) ELSE cuts[j]
    IN  [j \in 1..p |-> Flatten(SubSeq(cs, lo(j) + 1, hi(j)))]

\* Up to MaxColors colors in all, in up to MaxPalettes palettes (empty ones too).
SmallInputs ==
    {Split(cs, cuts) :
        <<cs, cuts>> \in
            {pr \in SeqsUpTo(SmallColors, MaxColors) \X SeqsUpTo(0..MaxColors, MaxPalettes - 1) :
                /\ \A j \in 1..Len(pr[2]) : pr[2][j] <= Len(pr[1])
                /\ \A j \in 1..(Len(pr[2]) - 1) : pr[2][j] <= pr[2][j + 1]}}

\* The k-th candidate (k >= 1) of the search that starts at <<0, 0, 0>>.
AdvCandidate(k) ==
    LET a == ((k - 1) \div 8) + 1
        s == (k - 1) % 8
        A == Min(255, a)
        B == Min(255, a - 1)
        C == Min(255, B + a)
        D == Max(0, C - a)
    IN  CASE s = 0 -> <<A, 0, B>>
          [] s = 1 -> <<0, A, B>>
          [] s = 2 -> <<0, 0, C>>
          [] s = 3 -> <<0, A, C>>
          [] s = 4 -> <<A, A, C>>
          [] s = 5 -> <<A, A, D>>
          [] s = 6 -> <<0, 0, 0>>
          [] s = 7 -> <<0, 0, A>>

IsFirst(e) == \A j \in 1..(e[1] - 1) : AdvCandidate(j) # e[2]

AdvInput(n) ==
    LET raw  == [k \in 1..(8 * n) |-> <<k, AdvCandidate(k)>>]
        kept == SelectSeq(raw, IsFirst)
        flat == [i \in 1..(3 * Len(kept)) |-> kept[((i - 1) \div 3) + 1][2][((i - 1) % 3) + 1]]
    IN  <<flat, <<0, 0, 0>>>>

\* The colors the first palette of AdvInput(n) holds: already_collected_colors when
\* make_palette_colors_unique comes to the second palette of AdvInput(n).
AdvSeen(n) ==
    LET flat == AdvInput(n)[1]
    IN  [k \in 1..(Len(flat) \div 3) |-> SubSeq(flat, 3 * k - 2, 3 * k)]

Inputs == SmallInputs \cup {AdvInput(1), AdvInput(AdvCycles)}

PaletteIdle ==
    /\ inp = <<>> /\ out = <<>> /\ already_collected_colors = <<>>
    /\ palette_idx = 0 /\ color_idx = 0 /\ color = <<>>
    /\ change_next = 0 /\ change_amount = 1 /\ depth = 0
    /\ pc = "idle" /\ pass = 1 /\ first_out = <<>>

\* _mpcu__check(color, already_collected_colors) as make_palette_colors_unique calls
\* it for the repeated <<0, 0, 0>> of AdvInput(n).
SearchInit ==
    /\ inp = <<>> /\ out = <<>>
    /\ \E n \in {1, 2, AdvCycles} : already_collected_colors = AdvSeen(n)
    /\ palette_idx = 0 /\ color_idx = 0 /\ color = <<0, 0, 0>>
    /\ change_next = 0 /\ change_amount = 1 /\ depth = 1
    /\ pc = "check" /\ pass = 1 /\ first_out = <<>>

PaletteInit ==
    /\ inp \in Inputs
    /\ out = <<>> /\ already_collected_colors = <<>>
    /\ palette_idx = 0 /\ color_idx = 0 /\ color = <<>>
    /\ change_next = 0 /\ change_amount = 1 /\ depth = 0
    /\ pc = "palettes" /\ pass = 1 /\ first_out = <<>>

\* for palette in inp: out_p = []; out.append(out_p)
NextPalette ==
    /\ UNCHANGED <<codec_vars, iter_vars>>
    /\ pc = "palettes"
    /\ palette_idx < Len(inp)
    /\ palette_idx' = palette_idx + 1
    /\ out' = Append(out, <<>>)
    /\ color_idx' = 0
    /\ pc' = "colors"
    /\ UNCHANGED <<inp, already_collected_colors, color, change_next, change_amount,
                   depth, pass, first_out>>

\* return out
Return ==
    /\ UNCHANGED <<codec_vars, iter_vars>>
    /\ pc = "palettes"
    /\ palette_idx = Len(inp)
    /\ pc' = "done"
    /\ UNCHANGED <<inp, out, already_collected_colors, palette_idx, color_idx, color,
                   change_next, change_amount, depth, pass, first_out>>

\* for color_idx in range(0, len(palette), 3): the call _mpcu__check(color, ...)
NextColor ==
    /\ UNCHANGED <<codec_vars, iter_vars>>
    /\ pc = "colors"
    /\ color_idx < Len(inp[palette_idx])
    /\ color' = Slice(inp[palette_idx], color_idx, color_idx + 3)
    /\ change_next' = 0
    /\ change_amount' = 1
    /\ depth' = 1
    /\ pc' = "check"
    /\ UNCHANGED <<inp, out, already_collected_colors, palette_idx, color_idx,
                   pass, first_out>>

\* The inner loop is used up: on to the next palette.
EndPalette ==
    /\ UNCHANGED <<codec_vars, iter_vars>>
    /\ pc = "colors"
    /\ color_idx >= Len(inp[palette_idx])
    /\ pc' = "palettes"
    /\ UNCHANGED <<inp, out, already_collected_colors, palette_idx, color_idx, color,
                   change_next, change_amount, depth, pass, first_out>>

\* color not in already_collected_colors: _mpcu__check returns color, through every
\* frame of the recursion.
CheckReturn ==
    /\ UNCHANGED <<codec_vars, iter_vars>>
    /\ pc = "check"
    /\ ~InSeen(color, already_collected_colors)
    /\ depth' = 0
    /\ pc' = "returned"
    /\ UNCHANGED <<inp, out, already_collected_colors, palette_idx, color_idx, color,
                   change_next, change_amount, pass, first_out>>

\* already_collected_colors.append(new_color); out_p += new_color
Collect ==
    /\ UNCHANGED <<codec_vars, iter_vars>>
    /\ pc = "returned"
    /\ palette_idx >= 1
    /\ already_collected_colors' = Append(already_collected_colors, color)
    /\ out' = [out EXCEPT ![palette_idx] = @ \o color]
    /\ color_idx' = color_idx + 3
    /\ color' = <<>>
    /\ change_next' = 0
    /\ change_amount' = 1
    /\ pc' = "colors"
    /\ UNCHANGED <<inp, palette_idx, depth, pass, first_out>>

\* The else branch: the next frame of _mpcu__check, on the perturbed color.
CheckPerturb ==
    /\ UNCHANGED <<codec_vars, iter_vars>>
    /\ pc = "check"
    /\ InSeen(color, already_collected_colors)
    /\ depth < RecursionLimit
    /\ color' = Clamp(Perturb(color, change_next, change_amount))
    /\ change_next' = new_change_next(change_next)
    /\ change_amount' = new_change_amount(change_next, change_amount)
    /\ depth' = depth + 1
    /\ UNCHANGED <<inp, out, already_collected_colors, palette_idx, color_idx, pc,
                   pass, first_out>>

\* The recursive call that would pass the interpreter's limit raises instead.
RaiseRecursionError ==
    /\ UNCHANGED <<codec_vars, iter_vars>>
    /\ pc = "check"
    /\ InSeen(color, already_collected_colors)
    /\ depth >= RecursionLimit
    /\ pc' = "RecursionError"
    /\ UNCHANGED <<inp, out, already_collected_colors, palette_idx, color_idx, color,
                   change_next, change_amount, depth, pass, first_out>>

\* make_palette_colors_unique(make_palette_colors_unique(inp))
Reapply ==
    /\ UNCHANGED <<codec_vars, iter_vars>>
    /\ pc = "done"
    /\ pass = 1
    /\ first_out' = out
    /\ inp' = out
    /\ out' = <<>>
    /\ already_collected_colors' = <<>>
    /\ palette_idx' = 0
    /\ color_idx' = 0
    /\ pass' = 2
    /\ pc' = "palettes"
    /\ UNCHANGED <<color, change_next, change_amount, depth>>

Palette ==
    \/ NextPalette \/ Return \/ NextColor \/ EndPalette
    \/ CheckReturn \/ Collect \/ CheckPerturb \/ RaiseRecursionError \/ Reapply

\* One call of _mpcu__check alone, from its caller's point of view.
Search == CheckReturn \/ CheckPerturb \/ RaiseRecursionError

(***************************************************************************)
(* The specifications.                                                     *)
(***************************************************************************)
InitCodec == CodecInit /\ IterIdle /\ PaletteIdle
SpecCodec == InitCodec /\ [][Codec]_vars

InitIter == CodecIdle /\ IterInit /\ PaletteIdle
SpecIter == InitIter /\ [][Iter]_vars

InitPalette == CodecIdle /\ IterIdle /\ PaletteInit
SpecPalette == InitPalette /\ [][Palette]_vars

InitSearch == CodecIdle /\ IterIdle /\ SearchInit
SpecSearch == InitSearch /\ [][Search]_vars

(***************************************************************************)
(* Properties of the integer codec (SpecCodec).                            *)
(***************************************************************************)
IsWriteCall == call.f \in Writes
\* [start, start+length) lies inside the buffer the call was made on.
RangeInside == call.start + call.length <= Len(before)

\* v can be stored in n bytes: 0 <= v < 256^n unsigned, -(256^n)/2 <= v < (256^n)/2 signed.
Representable(v, n, signed) ==
    IF signed
    THEN -(Pow256(n) \div 2) <= v /\ v < Pow256(n) \div 2
    ELSE 0 <= v /\ v < Pow256(n)

CallRepresentable == Representable(call.to_write, call.length, IsSigned(call.f))

\* C3: a representable value written with write_X at (start, length), the range inside
\* the buffer, is written without an error, and the matching read_X of the same
\* (start, length) returns it.
C3_RoundTrip ==
    (IsWriteCall /\ RangeInside /\ CallRepresentable)
        => /\ call.exc = "none"
           /\ ApplyRead(MatchingRead(call.f), data, call.start, call.length) = call.to_write

\* A negative value went through a two-byte little-endian round trip.
C3_Witness ==
    /\ call.f = "write_sintle" /\ call.length = 2 /\ call.to_write = -32768
    /\ call.start = 0 /\ call.exc = "none"
    /\ read_sintle(data, 0, 2) = -32768

\* C4: a write of a value that is not representable in `length` bytes under the
\* function's signedness raises OverflowError, and the buffer is as it was.
C4_OverflowRaises ==
    (IsWriteCall /\ ~CallRepresentable)
        => /\ call.exc = "OverflowError"
           /\ data = before

\* 256 into a one-byte unsigned field.
C4_Witness ==
    /\ call.f = "write_uintle" /\ call.to_write = 256 /\ call.length = 1
    /\ call.exc = "OverflowError" /\ data = before

BytesInside ==
    [i \in 1..Max(0, Min(call.length, Len(before) - call.start)) |-> before[call.start + i]]

C10_WriteFrame ==
    (IsWriteCall /\ call.exc = "none" /\ RangeInside)
        => /\ Len(data) = Len(before)
           /\ \A i \in 1..Len(before) :
                 (i <= call.start \/ i > call.start + call.length) => data[i] = before[i]

\* The second write of a run changed one byte of the buffer and left a byte beside it.
C10_Witness ==
    /\ ncalls >= 2 /\ IsWriteCall /\ call.exc = "none" /\ RangeInside
    /\ call.length = 1 /\ Len(before) >= 2
    /\ data # before /\ before # InitBuffer

(***************************************************************************)
(* Properties of iter_bytes (SpecIter).                                    *)
(***************************************************************************)
RECURSIVE Concat(_)
Concat(ss) == IF ss = <<>> THEN <<>> ELSE Head(ss) \o Concat(Tail(ss))

\* C8: for slice_size >= 1 and 0 <= start <= end <= len(data), the slices begin at
\* start, start+slice_size, ... below end; each but the last has slice_size bytes,
\* the last one ends at `end` at the latest, and together they are data[start:end].
C8_SlicesStopAtEnd ==
    it_pc = "exhausted" =>
        /\ \A k \in 1..Len(yielded) :
              LET b == it_start + (k - 1) * slice_size
              IN  /\ b < it_end
                  /\ yielded[k] = SubSeq(it_data, b + 1, Min(b + slice_size, it_end))
                  /\ k < Len(yielded) => Len(yielded[k]) = slice_size
        /\ it_start + Len(yielded) * slice_size >= it_end
        /\ Concat(yielded) = SubSeq(it_data, it_start + 1, it_end)

(***************************************************************************)
(* Properties of make_palette_colors_unique (SpecPalette).                 *)
(***************************************************************************)
\* The RGB triples of a flat palette, and of a whole collection, in order.
ColorsOf(flat) == [k \in 1..(Len(flat) \div 3) |-> SubSeq(flat, 3 * k - 2, 3 * k)]
AllColors(coll) == ColorsOf(Concat(coll))
\* No two positions of cs hold the same color.
NoRepeat(cs) == Cardinality({cs[i] : i \in 1..Len(cs)}) = Len(cs)

\* C1: after each processed color already_collected_colors is the sequence of the
\* colors emitted so far, and no color is in it twice; so no two colors of the
\* returned collection are equal, in one palette or in two.
C1_ColorsUnique ==
    pc \in {"palettes", "colors", "check", "returned", "done"} =>
        /\ already_collected_colors = AllColors(out)
        /\ NoRepeat(already_collected_colors)

\* The call returned for an input whose two palettes hold the same color.
C1_Witness ==
    /\ pc = "done" /\ pass = 1
    /\ Len(inp) = 2 /\ inp[1] = <<0, 0, 0>> /\ inp[2] = <<0, 0, 0>>
    /\ out = <<inp[1], <<1, 0, 0>>>>

\* C2: when no color occurs twice in the input the call returns the input, palette by
\* palette; and the call on a returned collection returns that collection.
C2_UniqueInputUntouched ==
    /\ (pc = "done" /\ NoRepeat(AllColors(inp))) => out = inp
    /\ (pc = "done" /\ pass = 2) => out = first_out

\* The second call returned, on three different colors in two palettes.
C2_Witness ==
    /\ pc = "done" /\ pass = 2
    /\ Len(inp) = 2 /\ Len(AllColors(inp)) = 3 /\ inp[1] # <<>> /\ inp[2] # <<>>
    /\ NoRepeat(AllColors(inp))
    /\ out = inp /\ first_out = inp

\* C6: the search of _mpcu__check always comes to a candidate that is not in
\* already_collected_colors: no call ends with the search out of stack.
C6_SearchTerminates == pc # "RecursionError"

\* make_palette_colors_unique comes to the call that SearchInit starts from.
AdvSeenReached ==
    /\ pc = "check" /\ depth = 1 /\ color = <<0, 0, 0>>
    /\ palette_idx = 2 /\ Len(already_collected_colors) > 8
    /\ already_collected_colors = AdvSeen(AdvCycles)

InByteRange(c) == \A i \in 1..Len(c) : c[i] \in 0..255

\* C7: every channel of every color of the output, of already_collected_colors and of
\* every candidate of the search is in 0..255.
C7_ChannelsInRange ==
    pc # "idle" =>
        /\ \A j \in 1..Len(out) : InByteRange(out[j])
        /\ \A k \in 1..Len(already_collected_colors) : InByteRange(already_collected_colors[k])
        /\ InByteRange(color)

\* The first candidate for a repeated <<255, 255, 255>>: R + 1 was cut back to 255.
C7_Witness ==
    /\ pc = "check" /\ depth = 2 /\ change_next = 1
    /\ color = <<255, 255, 255>>

\* What step s adds to (R, G, B), in units of the amount; step7 is what step 7 adds.
StepDelta(s, step7) ==
    CASE s = 0 -> <<1, 0, 0>>
      [] s = 1 -> <<-1, 1, 0>>
      [] s = 2 -> <<0, -1, 1>>
      [] s = 3 -> <<0, 1, 0>>
      [] s = 4 -> <<1, 0, 0>>
      [] s = 5 -> <<0, 0, -1>>
      [] s = 6 -> <<-1, -1, -1>>
      [] s = 7 -> step7

\* Candidate k+1 from candidate c, the k-th: step k mod 8 with amount 1 + floor(k / 8),
\* each channel then brought into 0..255.
Candidate(c, k, step7) ==
    LET a == 1 + (k \div 8)
        d == StepDelta(k % 8, step7)
    IN  [i \in 1..3 |-> Min(255, Max(0, c[i] + a * d[i]))]

Collected == {already_collected_colors[i] : i \in 1..Len(already_collected_colors)}

\* The innermost frame holds candidate number depth - 1 (the color itself is number 0):
\* a candidate that is collected already is followed by the next one, and the first
\* one that is not is what the search returns.
SearchStep(step7) ==
    /\ (pc = "check" /\ pc' = "check") =>
          /\ color \in Collected
          /\ color' = Candidate(color, depth - 1, step7)
    /\ (pc = "check" /\ pc' = "returned") =>
          /\ color \notin Collected
          /\ color' = color
    /\ (pc = "check" /\ color \notin Collected) => pc' = "returned"

\* C9 as claimed, step 7 being G + a and B + a.
C9_SearchSequenceClaimed == [][SearchStep(<<0, 1, 1>>)]_vars

\* C9 as amended: step 7 is G - a and B + a; the rest as claimed.
C9_SearchSequenceActual == [][SearchStep(<<0, -1, 1>>)]_vars

\* A search went through all eight steps and began the second pass, with amount 2.
C9_Witness ==
    /\ pc = "check" /\ depth = 10 /\ change_next = 1 /\ change_amount = 2
    /\ color = <<2, 0, 1>>

====
